---- MODULE Spec2Model ----
(***************************************************************************)
(* Model of the Phixeo execution engine (attached_assets/phixeo_runtime.py)*)
(* PhixeoRuntime.execute() submits nodes to a ThreadPoolExecutor of four   *)
(* workers; every task runs _execute_node_parallel on one node.            *)
(*                                                                         *)
(* A node's text is abstracted to what its evaluation does:                *)
(*   Tetrahedral  "print"  print(...)         appends one string           *)
(*                "assign" x = 1              binds x in _common_ops       *)
(*                "raise"  exec raises        appends "Error: ..."         *)
(*   Hexagonal    "range"  "x in range(k)"    k values                     *)
(*                "no_in"  no " in "          unpacking raises ValueError  *)
(*                "raise"  the iterable raises                             *)
(*   Pentagonal   "true" / "false" / "raise" / "var" (the text "x": a      *)
(*                NameError while x is unbound, truthy once x is bound)    *)
(*   Fractal      "label"  any text, it is appended as it is               *)
(***************************************************************************)
EXTENDS Integers, Sequences, FiniteSets, TLC

\* ThreadPoolExecutor(max_workers=4)
MaxWorkers == 4

\* Largest number of values a loop's range yields.
MaxIter == 2

\* Largest number of members of one body (connections or subnodes list).
MaxBody == 2

NodeTypes == {"Tetrahedral", "Hexagonal", "Pentagonal", "Fractal"}

Kind(t, v, k) == [type |-> t, value |-> v, k |-> k]

StatementKinds == {Kind("Tetrahedral", v, 0) : v \in {"print", "assign", "raise"}}

LoopKinds ==
    {Kind("Hexagonal", v, 0) : v \in {"no_in", "raise"}}
        \cup {Kind("Hexagonal", "range", k) : k \in 0..MaxIter}

ConditionalKinds == {Kind("Pentagonal", v, 0) : v \in {"true", "false", "raise", "var"}}

FunctionKinds == {Kind("Fractal", "label", 0)}

HeaderKinds == LoopKinds \cup ConditionalKinds \cup FunctionKinds

\* ---------------------------------------------------------------------
\* Sequences helpers
\* ---------------------------------------------------------------------
Range(s) == {s[i] : i \in DOMAIN s}

\* <<a, a+1, ..., b>>
Interval(a, b) == [i \in 1..(b - a + 1) |-> a + i - 1]

\* ---------------------------------------------------------------------
\* The node graphs the runtime is constructed with.  A program is
\*   n            number of node objects
\*   nodes        self.nodes, the list handed to PhixeoRuntime
\*   kind         data(0)["type"] and the class of data(0)["value"]
\*   connections  data(0)["connections"]
\*   subnodes     data(0)["subnodes"] (<<>> when the key is absent)
\*   pos          node.pos()
\* ---------------------------------------------------------------------
Program(n, nodes, kind, conn, sub, pos) ==
    [n |-> n, nodes |-> nodes, kind |-> kind, connections |-> conn,
     subnodes |-> sub, pos |-> pos]

\* Where the n nodes of a graph lie: on a ray from nodes[0], in list order
\* ("near") or, after nodes[0], in reverse list order ("far").
Layouts == {"near", "far"}

Layout(n, layout) ==
    [i \in 1..n |-> IF i = 1 THEN <<0, 0>>
                    ELSE IF layout = "near" THEN <<i - 1, 0>>
                    ELSE <<0, n + 1 - i>>]

\* Graphs built in the editor (add_node, connect_nodes): every node is in
\* the node list; one header node is connected to m body nodes.  The
\* header is created first or last, and the nodes lie on a ray from
\* nodes[0] in list order ("near") or in reverse list order ("far").
EditorProgram(h, body, headerFirst, layout) ==
    LET m == Len(body)
        n == m + 1
        hd == IF headerFirst THEN 1 ELSE n
        ch == IF headerFirst THEN Interval(2, n) ELSE Interval(1, m)
    IN Program(n, Interval(1, n),
               [i \in 1..n |-> IF i = hd THEN h
                               ELSE body[IF headerFirst THEN i - 1 ELSE i]],
               [i \in 1..n |-> IF i = hd THEN ch ELSE <<>>],
               [i \in 1..n |-> <<>>],
               Layout(n, layout))

Bodies(kinds) == UNION {[1..m -> kinds] : m \in 0..MaxBody}

EditorPrograms ==
    {EditorProgram(h, b, f, l) :
        h \in HeaderKinds \cup StatementKinds, b \in Bodies(StatementKinds),
        f \in BOOLEAN, l \in Layouts}

\* Graphs whose connections contain a cycle: 1 -> 2 -> 1 or 1 -> 1,
\* with or without one more node that is outside the cycle.
CyclicProgram(h, two, extra) ==
    LET c == IF two THEN 2 ELSE 1
        n == c + Len(extra)
    IN Program(n, Interval(1, n),
               [i \in 1..n |-> IF i <= c THEN h ELSE extra[i - c]],
               [i \in 1..n |-> IF i > c THEN <<>>
                               ELSE IF two THEN <<3 - i>> ELSE <<1>>],
               [i \in 1..n |-> <<>>],
               [i \in 1..n |-> <<i - 1, 0>>])

CyclicPrograms ==
    {CyclicProgram(h, two, e) :
        h \in {Kind("Pentagonal", "true", 0), Kind("Hexagonal", "range", 1),
               Kind("Fractal", "label", 0)},
        two \in BOOLEAN,
        e \in {<<>>, <<Kind("Tetrahedral", "print", 0)>>}}

\* Graphs with aggregate nodes (a Fractal node that carries "subnodes", the
\* shape PhixeoParser._create_fractal_parent builds).  Only node 1 is in
\* the node list.  Nodes 1..d are aggregates nested in each other; the
\* innermost one holds the header h, whose connections are the body.
AggregateProgram(d, h, body) ==
    LET m == Len(body)
        n == d + 1 + m
    IN Program(n, <<1>>,
               [i \in 1..n |-> IF i <= d THEN Kind("Fractal", "label", 0)
                               ELSE IF i = d + 1 THEN h ELSE body[i - d - 1]],
               [i \in 1..n |-> IF i = d + 1 THEN Interval(d + 2, n) ELSE <<>>],
               [i \in 1..n |-> IF i <= d THEN <<i + 1>> ELSE <<>>],
               [i \in 1..n |-> <<0, 0>>])

\* An aggregate that holds several subnodes.
GroupProgram(body) ==
    LET n == Len(body) + 1
    IN Program(n, <<1>>,
               [i \in 1..n |-> IF i = 1 THEN Kind("Fractal", "label", 0)
                               ELSE body[i - 1]],
               [i \in 1..n |-> <<>>],
               [i \in 1..n |-> IF i = 1 THEN Interval(2, n) ELSE <<>>],
               [i \in 1..n |-> <<0, 0>>])

\* An aggregate whose subnodes are in the node list themselves, after it.
ListedGroupProgram(body) ==
    LET n == Len(body) + 1
    IN Program(n, Interval(1, n),
               [i \in 1..n |-> IF i = 1 THEN Kind("Fractal", "label", 0)
                               ELSE body[i - 1]],
               [i \in 1..n |-> <<>>],
               [i \in 1..n |-> IF i = 1 THEN Interval(2, n) ELSE <<>>],
               [i \in 1..n |-> <<0, 0>>])

AggregatePrograms ==
    {AggregateProgram(1, h, b) :
        h \in HeaderKinds, b \in Bodies({Kind("Tetrahedral", "print", 0)})}
    \cup {AggregateProgram(d, Kind("Tetrahedral", "print", 0), <<>>) :
        d \in 1..MaxWorkers}
    \cup {GroupProgram(b) : b \in Bodies(StatementKinds)}
    \cup {ListedGroupProgram(b) :
              b \in Bodies({Kind("Tetrahedral", "print", 0)}) \ {<<>>}}

Programs == EditorPrograms \cup CyclicPrograms \cup AggregatePrograms

\* ---------------------------------------------------------------------
\* State
\* ---------------------------------------------------------------------
VARIABLES
    prog,           \* the node objects (self.nodes and what they refer to)
    common_ops,     \* names bound in self._common_ops by executed code
    output,         \* self.output
    executed,       \* the set 'executed' of execute()
    sorted_nodes,   \* the list 'sorted_nodes' of execute()
    mainPc,         \* position of the thread that called execute()
    scanIdx,        \* index of the for loop over sorted_nodes (lines 73-80)
    mainFutures,    \* the list 'futures' of execute()
    waitIdx,        \* index of the for loop over futures (lines 83-84)
    result,         \* what execute() returned
    tasks,          \* the work items given to self.executor, in submit order
    max_workers,    \* the size of self.executor's pool
    run,            \* how many runtimes have been constructed on the graph
    firstResult,    \* what the first runtime's execute() returned
    firstExecuted,  \* the nodes the first runtime's execute() evaluated
    firstSetup,     \* the pool size and node positions of the first runtime
    calls,          \* how many times execute() was called on the runtime
    lines,          \* PhixeoParser: self.code.splitlines()
    objs,           \* PhixeoParser: the node dicts, in the order of creation
    parser_nodes,   \* PhixeoParser: self.nodes, a list of references to dicts
    parsePc,        \* PhixeoParser: position of the caller of parse()
    lineIdx,        \* PhixeoParser: the index n of parse()'s loop over lines
    connTodo,       \* PhixeoParser: _process_connections tasks not yet run
    optCalls,       \* PhixeoParser: how many times optimize() was called
    futures,        \* PhixeoParser: the list 'futures' of parse()
    collectIdx,     \* PhixeoParser: index of parse()'s loop over futures
    ed_items,       \* PhixeoEditor: the graphics items (nodes and lines) created
    ed_nodes,       \* PhixeoEditor: self.nodes, a list of references to items
    ed_lines,       \* PhixeoEditor: self.lines, a list of references to items
    action_history, \* PhixeoEditor: self.action_history
    redo_history,   \* PhixeoEditor: self.redo_history
    file,           \* PhixeoEditor: the .phix file, <<>> while there is none
    lastAction      \* PhixeoEditor: the handler that ran last

\* the state of a PhixeoParser
parserVars == <<lines, objs, parser_nodes, parsePc, lineIdx, connTodo, optCalls,
               futures, collectIdx>>

\* what a run of execute() leaves alone
\* the state of a PhixeoEditor
editorVars == <<ed_items, ed_nodes, ed_lines, action_history, redo_history, file,
                lastAction>>

frame == <<max_workers, run, firstResult, firstExecuted, firstSetup, calls,
           parserVars, editorVars>>

vars == <<prog, common_ops, output, executed, sorted_nodes, mainPc, scanIdx,
          mainFutures, waitIdx, result, tasks, frame>>

NodeIds == 1..prog.n

TypeOf(n) == prog.kind[n].type
ValueOf(n) == prog.kind[n].value

\* One string of self.output: the node whose evaluation appended it, its
\* form, and for a loop record the value of the iteration.
Entry(n, form, val) == [node |-> n, form |-> form, val |-> val]

\* The prefix of the line an except clause appends (lines 105, 139, 157).
ErrorFormUniform(type) == "Error: "

ErrorForm(type) ==
    CASE type = "Tetrahedral" -> "Error: "
      [] type = "Hexagonal" -> "Error in loop: "
      [] type = "Pentagonal" -> "Error in if: "

\* ---------------------------------------------------------------------
\* execute(): sort
\* ---------------------------------------------------------------------
\* _compute_node_distance, squared (sqrt is monotone, the coordinates are
\* integers here).
Dist2(p, q) == (p[1] - q[1]) * (p[1] - q[1]) + (p[2] - q[2]) * (p[2] - q[2])

node_distance(n1, n2) == Dist2(prog.pos[n1], prog.pos[n2])

\* sorted(self.nodes, key=distance to self.nodes[0]); sorted() is stable.
SortedNodes ==
    LET ns == prog.nodes
        key(i) == node_distance(ns[i], ns[1])
        before(i, j) == key(i) < key(j) \/ (key(i) = key(j) /\ i < j)
        rank(j) == Cardinality({i \in DOMAIN ns : before(i, j)}) + 1
    IN [r \in DOMAIN ns |-> ns[CHOOSE j \in DOMAIN ns : rank(j) = r]]

\* _can_execute(node, executed)
can_execute(n) == \A i \in DOMAIN prog.connections[n] :
                      prog.connections[n][i] \in executed

\* self.executor.submit(self._execute_node_parallel, node, executed)
\* A work item: st is the state of its future, pc the position of the
\* worker inside _execute_node_parallel, it/ci/wi the indices of the loops
\* over values, body members and futures, out what the node's own
\* expression evaluated to.
NewTask(n) == [node |-> n, st |-> "queued", pc |-> "queued", it |-> 0,
               ci |-> 0, futs |-> <<>>, wi |-> 0, out |-> "none"]

\* PhixeoRuntime(nodes, lines): lines 19-25
FreshRuntime ==
    /\ common_ops = {}
    /\ output = <<>>
    /\ executed = {}
    /\ sorted_nodes = <<>>
    /\ mainPc = "idle"
    /\ scanIdx = 0
    /\ mainFutures = <<>>
    /\ waitIdx = 0
    /\ result = <<>>
    /\ tasks = <<>>

\* no PhixeoParser has been constructed
NoParser ==
    /\ lines = <<>>
    /\ objs = <<>>
    /\ parser_nodes = <<>>
    /\ parsePc = "none"
    /\ lineIdx = 0
    /\ connTodo = {}
    /\ optCalls = 0
    /\ futures = <<>>
    /\ collectIdx = 0

\* PhixeoEditor.__init__: an empty canvas
EmptyCanvas ==
    /\ ed_items = <<>>
    /\ ed_nodes = <<>>
    /\ ed_lines = <<>>
    /\ action_history = <<>>
    /\ redo_history = <<>>
    /\ file = <<>>
    /\ lastAction = "init"

Init ==
    /\ prog \in Programs
    /\ FreshRuntime
    /\ NoParser
    /\ EmptyCanvas
    /\ max_workers = MaxWorkers
    /\ run = 1
    /\ firstResult = <<>>
    /\ firstExecuted = {}
    /\ firstSetup = <<>>
    /\ calls = 1

\* execute(), lines 63-70
Execute ==
    /\ mainPc = "idle"
    /\ sorted_nodes' = SortedNodes
    /\ scanIdx' = 1
    /\ mainPc' = "scan"
    /\ UNCHANGED <<frame, prog, common_ops, output, executed, mainFutures, waitIdx,
                   result, tasks>>

\* line 74, first operand: node not in executed
ScanNotExecuted ==
    /\ mainPc = "scan"
    /\ scanIdx <= Len(sorted_nodes)
    /\ IF sorted_nodes[scanIdx] \in executed
          THEN /\ scanIdx' = scanIdx + 1
               /\ mainPc' = "scan"
          ELSE /\ scanIdx' = scanIdx
               /\ mainPc' = "can_execute"
    /\ UNCHANGED <<frame, prog, common_ops, output, executed, sorted_nodes,
                   mainFutures, waitIdx, result, tasks>>

\* line 74, second operand, and lines 75-80
ScanCanExecute ==
    /\ mainPc = "can_execute"
    /\ IF can_execute(sorted_nodes[scanIdx])
          THEN /\ tasks' = Append(tasks, NewTask(sorted_nodes[scanIdx]))
               /\ mainFutures' = Append(mainFutures, Len(tasks) + 1)
          ELSE UNCHANGED <<tasks, mainFutures>>
    /\ scanIdx' = scanIdx + 1
    /\ mainPc' = "scan"
    /\ UNCHANGED <<frame, prog, common_ops, output, executed, sorted_nodes, waitIdx,
                   result>>

\* the for loop of line 73 is exhausted
ScanEnd ==
    /\ mainPc = "scan"
    /\ scanIdx > Len(sorted_nodes)
    /\ mainPc' = "wait"
    /\ waitIdx' = 1
    /\ UNCHANGED <<frame, prog, common_ops, output, executed, sorted_nodes, scanIdx,
                   mainFutures, result, tasks>>

\* lines 83-84: future.result() returns once the task has finished
WaitFuture ==
    /\ mainPc = "wait"
    /\ waitIdx <= Len(mainFutures)
    /\ tasks[mainFutures[waitIdx]].st = "done"
    /\ waitIdx' = waitIdx + 1
    /\ UNCHANGED <<frame, prog, common_ops, output, executed, sorted_nodes, mainPc,
                   scanIdx, mainFutures, result, tasks>>

\* line 86
Return ==
    /\ mainPc = "wait"
    /\ waitIdx > Len(mainFutures)
    /\ mainPc' = "returned"
    /\ result' = output
    /\ UNCHANGED <<frame, prog, common_ops, output, executed, sorted_nodes, scanIdx,
                   mainFutures, waitIdx, tasks>>

\* ---------------------------------------------------------------------
\* The pool: _execute_node_parallel on one worker
\* ---------------------------------------------------------------------
Running == {t \in DOMAIN tasks : tasks[t].st = "running"}

\* The list a node's branch iterates to submit its members: subnodes in
\* the Fractal branch (line 163), connections in the others (126, 145).
BodyOf(n) == IF TypeOf(n) = "Fractal" THEN prog.subnodes[n]
             ELSE prog.connections[n]

Finished(t, out) == [node |-> tasks[t].node, st |-> "done", pc |-> "done",
                     it |-> 0, ci |-> 0, futs |-> <<>>, wi |-> 0, out |-> out]

\* A free worker takes the oldest queued work item (the executor's queue is
\* first-in first-out) and enters _execute_node_parallel; lines 97-98.  The
\* worker touches no shared state between taking the item and
\* executed.add(node), so both are one step.
StartTask(t) ==
    /\ tasks[t].st = "queued"
    /\ \A u \in 1..(t - 1) : tasks[u].st # "queued"
    /\ Cardinality(Running) < max_workers
    /\ tasks' = [tasks EXCEPT ![t].st = "running", ![t].pc = "eval"]
    /\ executed' = executed \cup {tasks[t].node}
    /\ UNCHANGED <<frame, prog, common_ops, output, sorted_nodes, mainPc, scanIdx,
                   mainFutures, waitIdx, result>>

\* line 103: exec(data["value"], self._common_ops) is entered
ExecBegin(t) ==
    /\ tasks[t].pc = "eval"
    /\ TypeOf(tasks[t].node) = "Tetrahedral"
    /\ tasks' = [tasks EXCEPT ![t].pc = "exec"]
    /\ UNCHANGED <<frame, prog, common_ops, output, executed, sorted_nodes, mainPc,
                   scanIdx, mainFutures, waitIdx, result>>

\* lines 103-105: exec returns or raises
ExecEnd(t) ==
    LET n == tasks[t].node IN
    /\ tasks[t].pc = "exec"
    /\ CASE ValueOf(n) = "print" ->
              /\ output' = Append(output, Entry(n, "str", 0))
              /\ common_ops' = common_ops
              /\ tasks' = [tasks EXCEPT ![t] = Finished(t, "ok")]
         [] ValueOf(n) = "assign" ->
              /\ common_ops' = common_ops \cup {"x"}
              /\ output' = output
              /\ tasks' = [tasks EXCEPT ![t] = Finished(t, "ok")]
         [] OTHER ->
              /\ output' = Append(output, Entry(n, ErrorForm("Tetrahedral"), 0))
              /\ common_ops' = common_ops
              /\ tasks' = [tasks EXCEPT ![t] = Finished(t, "raised")]
    /\ UNCHANGED <<frame, prog, executed, sorted_nodes, mainPc, scanIdx,
                   mainFutures, waitIdx, result>>

\* lines 107-115 and 138-139: the loop header
LoopHeader(t) ==
    LET n == tasks[t].node IN
    /\ tasks[t].pc = "eval"
    /\ TypeOf(n) = "Hexagonal"
    /\ IF ValueOf(n) = "range"
          THEN /\ tasks' = [tasks EXCEPT ![t].pc = "iter", ![t].it = 1,
                                         ![t].out = "ok"]
               /\ output' = output
          ELSE /\ output' = Append(output, Entry(n, ErrorForm("Hexagonal"), 0))
               /\ tasks' = [tasks EXCEPT ![t] = Finished(t, "raised")]
    /\ UNCHANGED <<frame, prog, common_ops, executed, sorted_nodes, mainPc, scanIdx,
                   mainFutures, waitIdx, result>>

\* lines 117-125: the next value of the loop, or the end of the loop
LoopIter(t) ==
    LET n == tasks[t].node IN
    /\ tasks[t].pc = "iter"
    /\ IF tasks[t].it <= prog.kind[n].k
          THEN /\ output' = Append(output,
                                   Entry(n, "loop_record", tasks[t].it - 1))
               /\ tasks' = [tasks EXCEPT ![t].pc = "submit", ![t].ci = 1,
                                         ![t].futs = <<>>]
          ELSE /\ output' = output
               /\ tasks' = [tasks EXCEPT ![t] = Finished(t, "ok")]
    /\ UNCHANGED <<frame, prog, common_ops, executed, sorted_nodes, mainPc, scanIdx,
                   mainFutures, waitIdx, result>>

\* lines 141-144 and 156-157: the condition
CondEval(t) ==
    LET n == tasks[t].node
        raises == \/ ValueOf(n) = "raise"
                  \/ ValueOf(n) = "var" /\ "x" \notin common_ops
        truthy == \/ ValueOf(n) = "true"
                  \/ ValueOf(n) = "var" /\ "x" \in common_ops
    IN
    /\ tasks[t].pc = "eval"
    /\ TypeOf(n) = "Pentagonal"
    /\ CASE raises ->
              /\ output' = Append(output, Entry(n, ErrorForm("Pentagonal"), 0))
              /\ tasks' = [tasks EXCEPT ![t] = Finished(t, "raised")]
         [] truthy ->
              /\ output' = Append(output, Entry(n, "value", 0))
              /\ tasks' = [tasks EXCEPT ![t].pc = "submit", ![t].ci = 1,
                                        ![t].out = "truthy"]
         [] OTHER ->
              /\ output' = output
              /\ tasks' = [tasks EXCEPT ![t] = Finished(t, "falsy")]
    /\ UNCHANGED <<frame, prog, common_ops, executed, sorted_nodes, mainPc, scanIdx,
                   mainFutures, waitIdx, result>>

\* the Fractal branch without line 160
FractalEvalSilent(t) ==
    LET n == tasks[t].node IN
    /\ tasks[t].pc = "eval"
    /\ TypeOf(n) = "Fractal"
    /\ tasks' = [tasks EXCEPT ![t].pc = "submit", ![t].ci = 1,
                              ![t].out = "ok"]
    /\ UNCHANGED <<frame, prog, common_ops, output, executed, sorted_nodes,
                   mainPc, scanIdx, mainFutures, waitIdx, result>>

\* lines 160-162
FractalEval(t) ==
    LET n == tasks[t].node IN
    /\ tasks[t].pc = "eval"
    /\ TypeOf(n) = "Fractal"
    /\ output' = Append(output, Entry(n, "value", 0))
    /\ tasks' = [tasks EXCEPT ![t].pc = "submit", ![t].ci = 1,
                              ![t].out = "ok"]
    /\ UNCHANGED <<frame, prog, common_ops, executed, sorted_nodes, mainPc, scanIdx,
                   mainFutures, waitIdx, result>>

\* lines 126-133, 145-152, 163-170: one member of the body
SubmitMember(t) ==
    LET n == tasks[t].node
        c == BodyOf(n)[tasks[t].ci]
    IN
    /\ tasks[t].pc = "submit"
    /\ tasks[t].ci <= Len(BodyOf(n))
    /\ IF c \notin executed
          THEN tasks' = Append([tasks EXCEPT ![t].ci = @ + 1,
                                             ![t].futs = Append(@, Len(tasks) + 1)],
                               NewTask(c))
          ELSE tasks' = [tasks EXCEPT ![t].ci = @ + 1]
    /\ UNCHANGED <<frame, prog, common_ops, output, executed, sorted_nodes, mainPc,
                   scanIdx, mainFutures, waitIdx, result>>

\* the for loop over the body is exhausted
SubmitEnd(t) ==
    /\ tasks[t].pc = "submit"
    /\ tasks[t].ci > Len(BodyOf(tasks[t].node))
    /\ tasks' = [tasks EXCEPT ![t].pc = "wait", ![t].wi = 1]
    /\ UNCHANGED <<frame, prog, common_ops, output, executed, sorted_nodes, mainPc,
                   scanIdx, mainFutures, waitIdx, result>>

\* lines 135-136, 154-155, 172-173: future.result() of one member
AwaitMember(t) ==
    /\ tasks[t].pc = "wait"
    /\ tasks[t].wi <= Len(tasks[t].futs)
    /\ tasks[tasks[t].futs[tasks[t].wi]].st = "done"
    /\ tasks' = [tasks EXCEPT ![t].wi = @ + 1]
    /\ UNCHANGED <<frame, prog, common_ops, output, executed, sorted_nodes, mainPc,
                   scanIdx, mainFutures, waitIdx, result>>

\* every member has finished: the next value of a loop, or the end.  The
\* mutant empties the node's connections list when it gets there.
BodyDoneConsuming(t) ==
    /\ tasks[t].pc = "wait"
    /\ tasks[t].wi > Len(tasks[t].futs)
    /\ IF TypeOf(tasks[t].node) = "Hexagonal"
          THEN tasks' = [tasks EXCEPT ![t].pc = "iter", ![t].it = @ + 1,
                                      ![t].ci = 0, ![t].futs = <<>>,
                                      ![t].wi = 0]
          ELSE tasks' = [tasks EXCEPT ![t] = Finished(t, tasks[t].out)]
    /\ prog' = [prog EXCEPT !.connections[tasks[t].node] = <<>>]
    /\ UNCHANGED <<frame, common_ops, output, executed, sorted_nodes, mainPc,
                   scanIdx, mainFutures, waitIdx, result>>

BodyDone(t) ==
    /\ tasks[t].pc = "wait"
    /\ tasks[t].wi > Len(tasks[t].futs)
    /\ IF TypeOf(tasks[t].node) = "Hexagonal"
          THEN tasks' = [tasks EXCEPT ![t].pc = "iter", ![t].it = @ + 1,
                                      ![t].ci = 0, ![t].futs = <<>>,
                                      ![t].wi = 0]
          ELSE tasks' = [tasks EXCEPT ![t] = Finished(t, tasks[t].out)]
    /\ UNCHANGED <<frame, prog, common_ops, output, executed, sorted_nodes, mainPc,
                   scanIdx, mainFutures, waitIdx, result>>

Next ==
    \/ Execute
    \/ ScanNotExecuted
    \/ ScanCanExecute
    \/ ScanEnd
    \/ WaitFuture
    \/ Return
    \/ \E t \in DOMAIN tasks : StartTask(t)
    \/ \E t \in DOMAIN tasks : ExecBegin(t)
    \/ \E t \in DOMAIN tasks : ExecEnd(t)
    \/ \E t \in DOMAIN tasks : LoopHeader(t)
    \/ \E t \in DOMAIN tasks : LoopIter(t)
    \/ \E t \in DOMAIN tasks : CondEval(t)
    \/ \E t \in DOMAIN tasks : FractalEval(t)
    \/ \E t \in DOMAIN tasks : SubmitMember(t)
    \/ \E t \in DOMAIN tasks : SubmitEnd(t)
    \/ \E t \in DOMAIN tasks : AwaitMember(t)
    \/ \E t \in DOMAIN tasks : BodyDone(t)

Spec == Init /\ [][Next]_vars

\* ---------------------------------------------------------------------
\* Vocabulary of the properties
\* ---------------------------------------------------------------------
TasksOf(n) == {t \in DOMAIN tasks : tasks[t].node = n}

\* n's evaluation has begun / n's own expression has been evaluated /
\* a task of n has finished
Begun(n) == \E t \in TasksOf(n) : tasks[t].st # "queued"
Evaluated(n) == \E t \in TasksOf(n) : tasks[t].out # "none"
Done(n) == \E t \in TasksOf(n) : tasks[t].st = "done"

\* how many times n has been evaluated
Evaluations(n) == Cardinality({t \in TasksOf(n) : tasks[t].st # "queued"})

EntriesOf(n) == {i \in DOMAIN output : output[i].node = n}

\* p -> c: c is in p's connections or subnodes list
MembersOf(p) == Range(prog.connections[p]) \cup Range(prog.subnodes[p])

RECURSIVE DescendantsWithin(_, _)
DescendantsWithin(S, d) ==
    IF d = 0 THEN {}
    ELSE LET step == UNION {MembersOf(p) : p \in S}
         IN step \cup DescendantsWithin(step, d - 1)

Descendants(p) == DescendantsWithin({p}, prog.n)

HasCycle == \E n \in NodeIds : n \in Descendants(n)

\* in the node list, or below a node of the node list
Reachable(n) == \E r \in Range(prog.nodes) : n = r \/ n \in Descendants(r)

\* C1: a node that is in another node's connections list does not begin
\* before that parent's own evaluation is over (the weakest reading of
\* "the parent is Done").
C1_ChildAfterParent ==
    \A p \in NodeIds : \A c \in Range(prog.connections[p]) :
        Begun(c) => Evaluated(p)

\* C2: on an acyclic forest, when execute() has returned, every reachable
\* node has been evaluated unless it is below a node whose body is not to
\* run (a falsy or failed condition, a malformed, failed or empty loop).
BodyNotRun(a) ==
    \/ TypeOf(a) = "Pentagonal" /\ ValueOf(a) # "true"
    \/ TypeOf(a) = "Hexagonal" /\ (ValueOf(a) # "range" \/ prog.kind[a].k = 0)

C2_AllEvaluatedAtReturn ==
    (mainPc = "returned" /\ ~HasCycle) =>
        \A n \in NodeIds :
            (Reachable(n) /\ ~\E a \in NodeIds : BodyNotRun(a) /\ n \in Descendants(a))
                => Begun(n)

\* C3: the pool is never starved: it is never the case that every one of
\* the MaxWorkers workers is blocked in future.result() on a work item that
\* has not finished (each such item is queued, or is running on one of
\* the blocked workers), so that no queued work item can ever start.
Blocked(t) ==
    /\ tasks[t].pc = "wait"
    /\ tasks[t].wi <= Len(tasks[t].futs)
    /\ tasks[tasks[t].futs[tasks[t].wi]].st # "done"

C3_NoStarvedPool ==
    ~(Cardinality(Running) = MaxWorkers /\ \A t \in Running : Blocked(t))

\* C4: when a loop over k values has finished, each of its children has
\* been executed exactly k times.
C4_BodyOncePerValue ==
    \A t \in DOMAIN tasks :
        (/\ tasks[t].st = "done"
         /\ TypeOf(tasks[t].node) = "Hexagonal"
         /\ ValueOf(tasks[t].node) = "range"
         /\ ~HasCycle)
        => \A c \in Range(prog.connections[tasks[t].node]) :
               Evaluations(c) = prog.kind[tasks[t].node].k

\* C5: the members of one body run one after another in list order: a
\* member does not begin before the members listed before it have finished.
C5_BodyInListOrder ==
    \A p \in NodeIds :
        TypeOf(p) # "Tetrahedral" =>
            \A body \in {prog.connections[p], prog.subnodes[p]} :
                \A i, j \in DOMAIN body :
                    (i < j /\ Begun(body[j])) => Done(body[i])

\* C6: when a condition has evaluated falsy, none of its children has been
\* evaluated, none of them has an output entry, and the condition has no
\* error entry.
C6_FalsySkipsChildren ==
    \A t \in DOMAIN tasks :
        tasks[t].out = "falsy" =>
            /\ \A c \in Range(prog.connections[tasks[t].node]) :
                   ~Begun(c) /\ EntriesOf(c) = {}
            /\ EntriesOf(tasks[t].node) = {}

\* C7 as stated: a node whose own expression raised has exactly one output
\* line, of the form "Error: <message>".
C7_ErrorLineUniform ==
    \A t \in DOMAIN tasks :
        tasks[t].out = "raised" =>
            Cardinality({i \in EntriesOf(tasks[t].node) :
                            output[i].form = "Error: "}) = 1

\* C7 amended: every evaluation whose own expression raised has finished
\* normally (its future holds no exception) and has left exactly one error
\* line: "Error: " for a Statement, "Error in loop: " for a Loop header,
\* "Error in if: " for a Conditional header.  No error line appears without
\* such an evaluation.
RaisedTasksOf(n) == {t \in TasksOf(n) : tasks[t].out = "raised"}

ErrorEntriesOf(n) ==
    {i \in EntriesOf(n) :
        output[i].form \in {"Error: ", "Error in loop: ", "Error in if: "}}

C7_ErrorContained ==
    \A n \in NodeIds :
        /\ \A t \in RaisedTasksOf(n) : tasks[t].st = "done"
        /\ Cardinality(ErrorEntriesOf(n)) = Cardinality(RaisedTasksOf(n))
        /\ \A i \in ErrorEntriesOf(n) :
               output[i].form =
                   (IF TypeOf(n) = "Tetrahedral" THEN "Error: "
                    ELSE IF TypeOf(n) = "Hexagonal" THEN "Error in loop: "
                    ELSE "Error in if: ")

\* a loop header or a condition has raised, and execute() has returned
C7_Witness ==
    /\ mainPc = "returned"
    /\ \E t \in DOMAIN tasks :
           /\ tasks[t].out = "raised"
           /\ TypeOf(tasks[t].node) \in {"Hexagonal", "Pentagonal"}
    /\ \E t \in DOMAIN tasks : tasks[t].out = "ok"

\* C8: with a cycle in the connections, execute() evaluates no node,
\* appends nothing and does not return normally.
C8_CycleAborts ==
    HasCycle => (tasks = <<>> /\ output = <<>> /\ mainPc # "returned")

\* C9: a loop whose text lacks " in " leaves exactly one entry, an error
\* entry, and none of its children is executed in that run.
C9_MalformedLoop ==
    \A t \in DOMAIN tasks :
        (tasks[t].st = "done" /\ TypeOf(tasks[t].node) = "Hexagonal"
            /\ ValueOf(tasks[t].node) = "no_in") =>
            /\ Cardinality(EntriesOf(tasks[t].node)) = 1
            /\ \A c \in Range(prog.connections[tasks[t].node]) : ~Begun(c)

\* C10: at most one worker at a time is executing code that mutates the
\* shared environment and output (exec on self._common_ops).
C10_OneMutator ==
    Cardinality({t \in DOMAIN tasks : tasks[t].pc = "exec"}) <= 1

\* ---------------------------------------------------------------------
\* Two runtimes on one graph
\* ---------------------------------------------------------------------
\* The pool sizes compared: one worker, and the size the runtime is built
\* with.
PoolSizes == {1, MaxWorkers}

InitPools ==
    /\ prog \in Programs
    /\ FreshRuntime
    /\ NoParser
    /\ EmptyCanvas
    /\ max_workers \in PoolSizes
    /\ run = 1
    /\ firstResult = <<>>
    /\ firstExecuted = {}
    /\ firstSetup = <<>>
    /\ calls = 1

\* PhixeoAPI.run() once more (phixeo_api.py 40-43): a new PhixeoRuntime,
\* with a new output list and a new pool, is constructed on the same node
\* objects after execute() has returned; the nodes may have been moved in
\* between (they are ItemIsMovable), their data is what it was.
SecondRuntime ==
    /\ mainPc = "returned"
    /\ run = 1
    /\ run' = 2
    /\ firstResult' = result
    /\ firstExecuted' = executed
    /\ firstSetup' = <<max_workers, prog.pos>>
    /\ \E w \in PoolSizes : max_workers' = w
    /\ \E pos \in {prog.pos} \cup {Layout(prog.n, l) : l \in Layouts} :
           prog' = [prog EXCEPT !.pos = pos]
    /\ common_ops' = {}
    /\ output' = <<>>
    /\ executed' = {}
    /\ sorted_nodes' = <<>>
    /\ mainPc' = "idle"
    /\ scanIdx' = 0
    /\ mainFutures' = <<>>
    /\ waitIdx' = 0
    /\ result' = <<>>
    /\ tasks' = <<>>
    /\ UNCHANGED <<calls, parserVars, editorVars>>

NextPools == Next \/ SecondRuntime

SpecPools == InitPools /\ [][NextPools]_vars

\* every node is the first node of the list or below it
Connected == \A n \in NodeIds : n = prog.nodes[1] \/ n \in Descendants(prog.nodes[1])

SecondReturned == run = 2 /\ mainPc = "returned"

\* C11: on a single connected program, the run with one worker and the run
\* with MaxWorkers workers return the same output.
C11_SameOutputAnyPool ==
    (/\ SecondReturned
     /\ Connected /\ ~HasCycle
     /\ prog.pos = firstSetup[2]
     /\ {firstSetup[1], max_workers} = PoolSizes)
    => result = firstResult

\* The schedule on which the workers are fast: the thread that called
\* execute() takes a step only when every submitted work item has
\* finished.  It is one of the schedules of SpecPools, and on it the set of
\* nodes a run evaluates is a function of the graph alone.
Quiet == \A t \in DOMAIN tasks : tasks[t].st = "done"

InitEager ==
    /\ prog \in Programs
    /\ FreshRuntime
    /\ NoParser
    /\ EmptyCanvas
    /\ max_workers = MaxWorkers
    /\ run = 1
    /\ firstResult = <<>>
    /\ firstExecuted = {}
    /\ firstSetup = <<>>
    /\ calls = 1

NextEager ==
    \/ Quiet /\ Execute
    \/ Quiet /\ ScanNotExecuted
    \/ Quiet /\ ScanCanExecute
    \/ Quiet /\ ScanEnd
    \/ Quiet /\ WaitFuture
    \/ Quiet /\ Return
    \/ Quiet /\ SecondRuntime
    \/ \E t \in DOMAIN tasks : StartTask(t)
    \/ \E t \in DOMAIN tasks : ExecBegin(t)
    \/ \E t \in DOMAIN tasks : ExecEnd(t)
    \/ \E t \in DOMAIN tasks : LoopHeader(t)
    \/ \E t \in DOMAIN tasks : LoopIter(t)
    \/ \E t \in DOMAIN tasks : CondEval(t)
    \/ \E t \in DOMAIN tasks : FractalEval(t)
    \/ \E t \in DOMAIN tasks : SubmitMember(t)
    \/ \E t \in DOMAIN tasks : SubmitEnd(t)
    \/ \E t \in DOMAIN tasks : AwaitMember(t)
    \/ \E t \in DOMAIN tasks : BodyDone(t)

SpecEager == InitEager /\ [][NextEager]_vars

\* C20: two graphs that differ in the nodes' coordinates only execute the
\* same set of nodes (same pool size, same schedule in both runs).
C20_SameNodesAnyLayout ==
    (/\ SecondReturned
     /\ ~HasCycle
     /\ firstSetup[1] = MaxWorkers /\ max_workers = MaxWorkers
     /\ prog.pos # firstSetup[2])
    => executed = firstExecuted

\* C18: when a Function node or a truthy Conditional has finished, each of
\* its children has been executed exactly once and has finished, and the
\* node's own text precedes every output entry of its children.
C18_TextThenChildren ==
    \A t \in DOMAIN tasks :
        (/\ tasks[t].st = "done"
         /\ TypeOf(tasks[t].node) = "Fractal" \/ tasks[t].out = "truthy"
         /\ ~HasCycle)
        => \A c \in Range(prog.connections[tasks[t].node]) :
               /\ Evaluations(c) = 1
               /\ Done(c)
               /\ \A i \in EntriesOf(tasks[t].node) : \A j \in EntriesOf(c) : i < j

\* An aggregate: a node that carries subnodes.
IsAggregate(a) == prog.subnodes[a] # <<>>

\* C19 as stated: an aggregate appends nothing of its own.
C19_AggregateSilent ==
    \A a \in NodeIds : IsAggregate(a) => EntriesOf(a) = {}

\* C19 amended: every evaluation of an aggregate appends exactly one entry
\* of its own, its label, and that entry precedes every entry of the
\* subnodes it submits (subnodes that are not in the node list themselves).
C19_AggregateLabelFirst ==
    \A a \in NodeIds :
        IsAggregate(a) =>
            /\ Cardinality(EntriesOf(a)) =
                   Cardinality({t \in TasksOf(a) : tasks[t].out # "none"})
            /\ \A i \in EntriesOf(a) : output[i].form = "value"
            /\ \A s \in Range(prog.subnodes[a]) :
                   s \notin Range(prog.nodes) =>
                       \A i \in EntriesOf(a) : \A j \in EntriesOf(s) : i < j

\* an aggregate has finished and one of its subnodes has left output
C19_Witness ==
    \E a \in NodeIds :
        /\ IsAggregate(a)
        /\ Done(a)
        /\ \E s \in Range(prog.subnodes[a]) : EntriesOf(s) # {}

\* =====================================================================
\* PhixeoParser (attached_assets/phixeo_parser.py)
\* =====================================================================
\* Largest number of lines of a source whose lines are indented.
MaxLines == 3

\* Largest number of lines of a source whose lines are not indented.
MaxFlat == 4

\* Largest number of leading blanks of a line.
MaxIndent == 2

\* Largest number of optimize() calls after parse().
MaxOptimize == 2

\* A stripped line is the sequence of its blank-separated words.  What the
\* parser asks of a line is whether a pattern occurs in it; a pattern
\* without blanks occurs in a line when it occurs in one of its words.
WordHas(w) ==
    CASE w = "print(x)" -> {"print"}
      [] w \in {"=", "=="} -> {"="}
      [] w \in {"for", "format(x)"} -> {"for"}
      [] w = "if" -> {"if"}
      [] w = "def" -> {"def"}
      [] OTHER -> {}

\* the patterns a word ends with
WordEnds(w) == IF w \in {"for", "if", "def"} THEN {w} ELSE {}

\* pat in line
In(pat, text) == \E i \in DOMAIN text : pat \in WordHas(text[i])

\* (pat + " ") in line: the pattern ends a word that is not the last one
InSp(pat, text) == \E i \in 1..(Len(text) - 1) : pat \in WordEnds(text[i])

Blank == <<>>

Texts ==
    { Blank,
      <<"pass">>,
      <<"print(x)">>,
      <<"x", "=", "1">>,
      <<"y", "=", "1">>,
      <<"for", "i", "in", "r:">>,
      <<"if", "x:">>,
      <<"if", "x", "==", "1:">>,
      <<"for", "i", "in", "r:", "x", "=", "i">>,
      <<"def", "f():">>,
      <<"def", "f(a", "=", "1):">>,
      <<"format(x)">> }

NestedTexts == {Blank, <<"pass">>, <<"print(x)">>, <<"if", "x:">>}

FlatTexts == {<<"x", "=", "1">>, <<"y", "=", "1">>, <<"for", "i", "in", "r:">>,
              <<"def", "f():">>}

\* a line of the source: its leading blanks and what strip() leaves
Line(indent, text) == [indent |-> indent, text |-> text]

SeqsUpTo(S, k) == UNION {[1..m -> S] : m \in 0..k}

Sources ==
    {<<Line(d, t)>> : d \in 0..MaxIndent, t \in Texts}
        \cup SeqsUpTo({Line(d, t) : d \in 0..MaxIndent, t \in NestedTexts}, MaxLines)
        \cup SeqsUpTo({Line(0, t) : t \in FlatTexts}, MaxFlat)

\* len(line) - len(line.lstrip())
Indent(i) == lines[i].indent

\* _create_node: the type of the dict it returns, "None" when it returns
\* None
create_node(text) ==
    IF In("print", text) \/ In("=", text) THEN "Tetrahedral"
    ELSE IF In("for", text) THEN "Hexagonal"
    ELSE IF In("if", text) THEN "Pentagonal"
    ELSE IF In("def", text) THEN "Fractal"
    ELSE "None"

\* The dict _create_node returns for the line with index n.  x and y are
\* the point of the spiral with index n; the key "connections" is absent
\* from a Tetrahedral dict.  The mutant puts every node on the first point.
NodeDictOrigin(type, text, n) ==
    [type |-> type, value |-> text, at |-> [spiral |-> 0, mean |-> <<>>],
     has_connections |-> type # "Tetrahedral", connections |-> <<>>,
     subnodes |-> <<>>]

NodeDict(type, text, n) ==
    [type |-> type, value |-> text, at |-> [spiral |-> n, mean |-> <<>>],
     has_connections |-> type # "Tetrahedral", connections |-> <<>>,
     subnodes |-> <<>>]

\* PhixeoParser(code), before parse()
InitParser ==
    /\ lines \in Sources
    /\ objs = <<>>
    /\ parser_nodes = <<>>
    /\ parsePc = "create"
    /\ lineIdx = 0
    /\ connTodo = {}
    /\ optCalls = 0
    /\ futures = <<>>
    /\ collectIdx = 0
    /\ EmptyCanvas
    /\ prog = Program(0, <<>>, <<>>, <<>>, <<>>, <<>>)
    /\ FreshRuntime
    /\ max_workers = MaxWorkers
    /\ run = 1
    /\ firstResult = <<>>
    /\ firstExecuted = {}
    /\ firstSetup = <<>>
    /\ calls = 1

runtimeVars == <<prog, common_ops, output, executed, sorted_nodes, mainPc, scanIdx,
                 mainFutures, waitIdx, result, tasks, max_workers, run,
                 firstResult, firstExecuted, firstSetup, calls>>

\* parse(), lines 39-54: one line of the source.  _create_node reads its
\* arguments only and the futures are collected in the order of the lines,
\* so the node list does not depend on how the pool runs the tasks.
ParseLine ==
    /\ parsePc = "create"
    /\ lineIdx < Len(lines)
    /\ LET text == lines[lineIdx + 1].text
           type == create_node(text)
       IN IF text = Blank \/ type = "None"
          THEN UNCHANGED <<objs, parser_nodes>>
          ELSE /\ objs' = Append(objs, NodeDict(type, text, lineIdx))
               /\ parser_nodes' = Append(parser_nodes, Len(objs) + 1)
    /\ lineIdx' = lineIdx + 1
    /\ UNCHANGED <<futures, collectIdx, lines, parsePc, connTodo, optCalls, runtimeVars, editorVars>>

\* _add_connections_parallel, lines 74-78: a task for every node that has
\* the key "connections"; the task is given the node's index in self.nodes
AddConnections ==
    /\ parsePc = "create"
    /\ lineIdx = Len(lines)
    /\ connTodo' = {i \in DOMAIN parser_nodes : objs[parser_nodes[i]].has_connections}
    /\ parsePc' = "connect"
    /\ UNCHANGED <<futures, collectIdx, lines, objs, parser_nodes, lineIdx, optCalls, runtimeVars, editorVars>>

\* _process_connections(node, lines, index), index counted from 1 here:
\* the indices of self.nodes that the call appends to node["connections"].
\* The mutant scans on after the first line it finds.
process_connections_all(index) ==
    LET found == {j \in 1..(index - 1) : Indent(j) < Indent(index)}
        rank(j) == Cardinality({k \in found : k > j}) + 1
    IN IF Indent(index) > 0
       THEN [r \in 1..Cardinality(found) |-> CHOOSE j \in found : rank(j) = r]
       ELSE <<>>

process_connections(index) ==
    LET found == {j \in 1..(index - 1) : Indent(j) < Indent(index)}
        last == CHOOSE j \in found : \A k \in found : k <= j
    IN IF Indent(index) > 0 /\ found # {} THEN <<last>> ELSE <<>>

\* one _process_connections task; the pool runs the tasks in any order
ProcessConnections(i) ==
    /\ parsePc = "connect"
    /\ i \in connTodo
    /\ LET id == parser_nodes[i]
           found == process_connections(i)
           refs == [k \in DOMAIN found |-> parser_nodes[found[k]]]
       IN objs' = [objs EXCEPT ![id].connections = @ \o refs]
    /\ connTodo' = connTodo \ {i}
    /\ UNCHANGED <<futures, collectIdx, lines, parser_nodes, parsePc, lineIdx, optCalls, runtimeVars, editorVars>>

\* lines 81-82 and 58: every future has a result, parse() returns
ParseReturn ==
    /\ parsePc = "connect"
    /\ connTodo = {}
    /\ parsePc' = "parsed"
    /\ UNCHANGED <<futures, collectIdx, lines, objs, parser_nodes, lineIdx, connTodo, optCalls, runtimeVars, editorVars>>

\* _nodes_are_similar(node1, node2): same type and same first word
nodes_are_similar(a, b) ==
    /\ objs[a].type = objs[b].type
    /\ objs[a].value[1] = objs[b].value[1]

\* _group_similar_nodes, lines 111-125: the loop from the node with index
\* i on, and the append after the loop
RECURSIVE GroupFrom(_, _, _)
GroupFrom(i, groups, current_group) ==
    IF i > Len(parser_nodes)
    THEN IF current_group # <<>> THEN Append(groups, current_group) ELSE groups
    ELSE LET node == parser_nodes[i]
         IN IF current_group = <<>>
               \/ nodes_are_similar(current_group[Len(current_group)], node)
            THEN GroupFrom(i + 1, groups, Append(current_group, node))
            ELSE GroupFrom(i + 1, Append(groups, current_group), <<node>>)

group_similar_nodes == GroupFrom(1, <<>>, <<>>)

\* f"group_{type.lower()}"
GroupLabel(type) ==
    CASE type = "Tetrahedral" -> "group_tetrahedral"
      [] type = "Hexagonal" -> "group_hexagonal"
      [] type = "Pentagonal" -> "group_pentagonal"
      [] type = "Fractal" -> "group_fractal"

\* _create_fractal_parent(group): x and y are the means of the group's.
\* The mutant keeps all but the last node of the group.
create_fractal_parent_short(group) ==
    [type |-> "Fractal", value |-> <<GroupLabel(objs[group[1]].type)>>,
     at |-> [spiral |-> -1, mean |-> [i \in DOMAIN group |-> objs[group[i]].at]],
     has_connections |-> TRUE, connections |-> <<>>,
     subnodes |-> SubSeq(group, 1, Len(group) - 1)]

create_fractal_parent(group) ==
    [type |-> "Fractal", value |-> <<GroupLabel(objs[group[1]].type)>>,
     at |-> [spiral |-> -1, mean |-> [i \in DOMAIN group |-> objs[group[i]].at]],
     has_connections |-> TRUE, connections |-> <<>>,
     subnodes |-> group]

\* optimize(), lines 98-104: the loop from the group with index g on;
\* heap is the dicts there are, optimized_nodes the list built so far
RECURSIVE OptimizeFrom(_, _, _, _)
OptimizeFrom(node_groups, g, heap, optimized_nodes) ==
    IF g > Len(node_groups)
    THEN [heap |-> heap, nodes |-> optimized_nodes]
    ELSE LET group == node_groups[g]
         IN IF Len(group) > 1
            THEN OptimizeFrom(node_groups, g + 1,
                              Append(heap, create_fractal_parent(group)),
                              Append(optimized_nodes, Len(heap) + 1))
            ELSE OptimizeFrom(node_groups, g + 1, heap,
                              Append(optimized_nodes, group[1]))

\* optimize()
Optimize ==
    /\ parsePc = "parsed"
    /\ optCalls < MaxOptimize
    /\ LET r == OptimizeFrom(group_similar_nodes, 1, objs, <<>>)
       IN /\ objs' = r.heap
          /\ parser_nodes' = r.nodes
    /\ optCalls' = optCalls + 1
    /\ UNCHANGED <<futures, collectIdx, lines, parsePc, lineIdx, connTodo, runtimeVars, editorVars>>

NextParser ==
    \/ ParseLine
    \/ AddConnections
    \/ \E i \in DOMAIN parser_nodes : ProcessConnections(i)
    \/ ParseReturn
    \/ Optimize

SpecParser == InitParser /\ [][NextParser]_vars

\* ---------------------------------------------------------------------
\* Vocabulary of the parser claims
\* ---------------------------------------------------------------------
Dicts == DOMAIN objs

\* a dict that has the key "subnodes"
HasSubnodes(d) == objs[d].subnodes # <<>>

\* the dicts parse() created
Parsed == {d \in Dicts : ~HasSubnodes(d)}

\* the node a dict's "connections" names: the enclosing node
ParentsOf(d) == Range(objs[d].connections)

ChildrenOf(p) == {c \in Dicts : p \in ParentsOf(c)}

RECURSIVE AncestorsWithin(_, _)
AncestorsWithin(d, k) ==
    IF k = 0 THEN {}
    ELSE ParentsOf(d) \cup UNION {AncestorsWithin(p, k - 1) : p \in ParentsOf(d)}

Ancestors(d) == AncestorsWithin(d, Len(objs))

\* the leading blanks of the source line a dict was created from
SourceIndent(d) == lines[objs[d].at.spiral + 1].indent

\* the dicts that are not aggregates, counting into subnodes, in order
RECURSIVE LeavesOf(_)
RECURSIVE LeavesOfList(_)
LeavesOf(d) == IF HasSubnodes(d) THEN LeavesOfList(objs[d].subnodes) ELSE <<d>>

LeavesOfList(ds) ==
    IF ds = <<>> THEN <<>> ELSE LeavesOf(Head(ds)) \o LeavesOfList(Tail(ds))

\* C12: a created node's type follows the order for / if / def before
\* print / =: a line with "for " is a Hexagonal node, otherwise one with
\* "if " a Pentagonal node, otherwise one with "def " a Fractal node, also
\* when the line contains "=" or "print"; a Tetrahedral node comes from a
\* line on which none of the three occurs.
C12_HeadersBeforeStatement ==
    \A d \in Parsed :
        LET v == objs[d].value
            t == objs[d].type
        IN /\ InSp("for", v) => t = "Hexagonal"
           /\ (~InSp("for", v) /\ InSp("if", v)) => t = "Pentagonal"
           /\ (~InSp("for", v) /\ ~InSp("if", v) /\ InSp("def", v)) => t = "Fractal"
           /\ t = "Tetrahedral" =>
                  ~(InSp("for", v) \/ InSp("if", v) \/ InSp("def", v))

\* C13: the links of the parsed nodes form a forest: no node is its own
\* ancestor, a node has at most one parent, the parent is a node of the
\* list, and every node among a node's children has that node as its
\* only parent.
C13_Forest ==
    \A d \in Dicts :
        /\ d \notin Ancestors(d)
        /\ Len(objs[d].connections) <= 1
        /\ ParentsOf(d) \subseteq Parsed
        /\ \A c \in ChildrenOf(d) : ParentsOf(c) = {d}

\* parse() has returned and some node's parent has a parent
C13_Witness ==
    /\ parsePc = "parsed"
    /\ \E c \in Dicts : \E p \in ParentsOf(c) : ParentsOf(p) # {}

\* C14: a node that has a parent was created from a line indented more
\* than the line its parent was created from.
C14_ChildIndentedMore ==
    parsePc = "parsed" =>
        \A d \in Parsed : \A p \in ParentsOf(d) : SourceIndent(d) > SourceIndent(p)

\* C15: after any number of optimize() calls the nodes that are not
\* aggregates, counted into every aggregate's subnodes, are the nodes
\* parse() created, each once and in the order of their creation.
C15_LeavesPreserved ==
    parsePc = "parsed" =>
        /\ Len(LeavesOfList(parser_nodes)) = Cardinality(Parsed)
        /\ LeavesOfList(parser_nodes) = Interval(1, Cardinality(Parsed))

\* optimize() has been called twice, the first call built two aggregates
\* and the second call put them into one
C15_Witness ==
    /\ optCalls = 2
    /\ Cardinality(Parsed) = 4
    /\ Len(parser_nodes) = 1
    /\ Len(objs) = 7

\* C16: no aggregate's subnodes list contains an aggregate.
C16_AggregatesFlat ==
    \A d \in Dicts : \A m \in Range(objs[d].subnodes) : ~HasSubnodes(m)

\* =====================================================================
\* PhixeoEditor (attached_assets/phixeo_editor.py): building, saving and
\* loading a canvas
\* =====================================================================
\* Largest number of graphics items (nodes and lines) created on a canvas.
MaxItems == 3

\* Largest number of entries of all connections lists together.
MaxLinks == 2

\* what add_node is called with: a node type of the toolbar and the text
\* of the value field
EdInputs == {<<"Tetrahedral", "a">>, <<"Hexagonal", "b">>}

EdValues == {in[2] : in \in EdInputs}

\* A QGraphicsPathItem with its data(0) dict; at is the index of the
\* spiral point the item was placed on.
NodeItem(type, value, at) ==
    [type |-> type, value |-> value, at |-> at, connections |-> <<>>,
     ends |-> <<>>]

\* A QGraphicsLineItem; its data(0) is the list [start_item, item].
LineItem(a, b) ==
    [type |-> "Line", value |-> "", at |-> -1, connections |-> <<>>,
     ends |-> <<a, b>>]

\* list.index(x), counted from 1
IndexOf(list, x) ==
    CHOOSE j \in DOMAIN list : list[j] = x /\ \A k \in 1..(j - 1) : list[k] # x

\* list.remove(x)
Remove(list, x) ==
    SubSeq(list, 1, IndexOf(list, x) - 1)
        \o SubSeq(list, IndexOf(list, x) + 1, Len(list))

\* [c for c in list if c != x]
Without(list, x) == SelectSeq(list, LAMBDA c : c # x)

\* the entries of all connections lists
RECURSIVE LinksFrom(_)
LinksFrom(i) ==
    IF i > Len(ed_items) THEN 0 ELSE Len(ed_items[i].connections) + LinksFrom(i + 1)

HistoryEntry(op, item) == [op |-> op, item |-> item]

otherVars == <<runtimeVars, parserVars>>

\* add_node(node_type), lines 767-783; text is self.prop_value.text()
add_node(node_type, text) ==
    /\ Len(ed_items) < MaxItems
    /\ LET item == Len(ed_items) + 1
       IN /\ ed_items' = Append(ed_items, NodeItem(node_type, text, Len(ed_nodes)))
          /\ ed_nodes' = Append(ed_nodes, item)
          /\ action_history' = Append(action_history, HistoryEntry("add_node", item))
    /\ redo_history' = <<>>
    /\ lastAction' = "add_node"
    /\ UNCHANGED <<ed_lines, file, otherVars>>

\* eventFilter in connection mode, lines 834-852: the second click, on an
\* item other than the first
eventFilter(start_item, item) ==
    /\ start_item \in Range(ed_nodes)
    /\ item \in Range(ed_nodes)
    /\ item # start_item
    /\ Len(ed_items) < MaxItems
    /\ LinksFrom(1) < MaxLinks
    /\ LET line == Len(ed_items) + 1
       IN /\ ed_items' = [Append(ed_items, LineItem(start_item, item))
                             EXCEPT ![start_item].connections = Append(@, item)]
          /\ ed_lines' = Append(ed_lines, line)
          /\ action_history' = Append(action_history,
                                      HistoryEntry("add_connection", line))
    /\ redo_history' = <<>>
    /\ lastAction' = "eventFilter"
    /\ UNCHANGED <<ed_nodes, file, otherVars>>

\* _add_connection(source_node), lines 1050-1062: the dialog offers the
\* values of the other nodes; the target is the first node of self.nodes
\* that has the chosen value.  Nothing is recorded in the history.
add_connection(source_node, target_node) ==
    /\ source_node \in Range(ed_nodes)
    /\ LinksFrom(1) < MaxLinks
    /\ target_node \in {ed_items[n].value : n \in Range(ed_nodes) \ {source_node}}
    /\ LET first == CHOOSE j \in DOMAIN ed_nodes :
                        /\ ed_items[ed_nodes[j]].value = target_node
                        /\ \A k \in 1..(j - 1) :
                               ed_items[ed_nodes[k]].value # target_node
           target == ed_nodes[first]
       IN ed_items' = [ed_items EXCEPT ![source_node].connections = Append(@, target)]
    /\ lastAction' = "_add_connection"
    /\ UNCHANGED <<ed_nodes, ed_lines, action_history, redo_history, file, otherVars>>

\* what undo and redo read and write
Canvas ==
    [items |-> ed_items, nodes |-> ed_nodes, lines |-> ed_lines,
     history |-> action_history, redo |-> redo_history]

\* undo_action on a canvas with a non-empty history, lines 884-893.  The
\* entry is moved to the redo history first; list.remove raises ValueError
\* when the item is not in the list, and the handler ends there.
undo(c) ==
    LET entry == c.history[Len(c.history)]
        item == entry.item
        start == c.items[item].ends[1]
        end == c.items[item].ends[2]
        popped == [c EXCEPT !.history = SubSeq(@, 1, Len(@) - 1),
                            !.redo = Append(@, entry)]
    IN IF entry.op = "add_node"
       THEN IF item \in Range(c.nodes)
            THEN [popped EXCEPT !.nodes = Remove(@, item)]
            ELSE popped
       ELSE IF item \notin Range(c.lines)
            THEN popped
            ELSE IF end \in Range(c.items[start].connections)
                 THEN [popped EXCEPT !.lines = Remove(@, item),
                                     !.items[start].connections = Remove(@, end)]
                 ELSE [popped EXCEPT !.lines = Remove(@, item)]

\* one of the list.remove calls of lines 888, 891, 892 raises
undo_raises(c) ==
    LET entry == c.history[Len(c.history)]
        item == entry.item
        start == c.items[item].ends[1]
        end == c.items[item].ends[2]
    IN IF entry.op = "add_node"
       THEN item \notin Range(c.nodes)
       ELSE \/ item \notin Range(c.lines)
            \/ end \notin Range(c.items[start].connections)

\* redo_action on a canvas with a non-empty redo history, lines 899-907
redo(c) ==
    LET entry == c.redo[Len(c.redo)]
        item == entry.item
        start == c.items[item].ends[1]
        end == c.items[item].ends[2]
        popped == [c EXCEPT !.redo = SubSeq(@, 1, Len(@) - 1),
                            !.history = Append(@, entry)]
    IN IF entry.op = "add_node"
       THEN [popped EXCEPT !.nodes = Append(@, item)]
       ELSE [popped EXCEPT !.lines = Append(@, item),
                           !.items[start].connections = Append(@, end)]

\* undo_action, lines 880-894
undo_action ==
    /\ action_history # <<>>
    /\ LET c == undo(Canvas)
       IN /\ ed_items' = c.items
          /\ ed_nodes' = c.nodes
          /\ ed_lines' = c.lines
          /\ action_history' = c.history
          /\ redo_history' = c.redo
    /\ lastAction' = "undo_action"
    /\ UNCHANGED <<file, otherVars>>

\* redo_action, lines 896-908
redo_action ==
    /\ redo_history # <<>>
    /\ LET c == redo(Canvas)
       IN /\ ed_items' = c.items
          /\ ed_nodes' = c.nodes
          /\ ed_lines' = c.lines
          /\ action_history' = c.history
          /\ redo_history' = c.redo
    /\ lastAction' = "redo_action"
    /\ UNCHANGED <<file, otherVars>>

\* clear_canvas, lines 910-916: scene.clear() deletes the items
clear_canvas ==
    /\ ed_items' = <<>>
    /\ ed_nodes' = <<>>
    /\ ed_lines' = <<>>
    /\ action_history' = <<>>
    /\ redo_history' = <<>>
    /\ lastAction' = "clear_canvas"
    /\ UNCHANGED <<file, otherVars>>

\* _delete_node(node), lines 1076-1097, answered Yes
delete_node(node) ==
    /\ node \in Range(ed_nodes)
    /\ ed_items' = [i \in DOMAIN ed_items |->
                       IF i \in Range(ed_nodes)
                       THEN [ed_items[i] EXCEPT !.connections = Without(@, node)]
                       ELSE ed_items[i]]
    /\ ed_nodes' = Remove(ed_nodes, node)
    /\ lastAction' = "_delete_node"
    /\ UNCHANGED <<ed_lines, action_history, redo_history, file, otherVars>>

\* save_phixeo can build its list: every connection is in self.nodes
Saveable ==
    \A n \in Range(ed_nodes) : Range(ed_items[n].connections) \subseteq Range(ed_nodes)

\* save_phixeo, lines 953-954: the list that is dumped.  json.dump and
\* json.load return the strings and the integers of the list as they are.
save_data ==
    [i \in DOMAIN ed_nodes |->
        LET n == ed_items[ed_nodes[i]]
        IN [type |-> n.type, at |-> n.at, value |-> n.value,
            connections |-> [k \in DOMAIN n.connections |->
                                IndexOf(ed_nodes, n.connections[k]) - 1]]]

\* save_phixeo, lines 950-956, with a file name chosen; self.nodes.index
\* raises ValueError on a connection that is not in self.nodes and the
\* file is not written
save_phixeo ==
    /\ file' = IF Saveable THEN <<save_data>> ELSE file
    /\ lastAction' = "save_phixeo"
    /\ UNCHANGED <<ed_items, ed_nodes, ed_lines, action_history, redo_history,
                   otherVars>>

\* load_phixeo, lines 974-983: nodes[conn_idx].  The mutant takes the
\* first node whatever the index.
resolve_first(nodes, conn_idx) == nodes[1]

resolve(nodes, conn_idx) == nodes[conn_idx + 1]

\* load_phixeo, lines 958-985, with the saved file chosen: clear_canvas,
\* one new item per record, then the connections and one new line item
\* per connection, record by record
load_phixeo ==
    /\ file # <<>>
    /\ LET data == file[1]
           nodes == [i \in DOMAIN data |-> i]
           links == {<<i, k>> : i \in DOMAIN data, k \in 1..MaxLinks} \cap
                        {p \in (DOMAIN data) \X (1..MaxLinks) :
                             p[2] <= Len(data[p[1]].connections)}
           before(p, q) == p[1] < q[1] \/ (p[1] = q[1] /\ p[2] < q[2])
           rank(q) == Cardinality({p \in links : before(p, q)}) + 1
           link(r) == CHOOSE q \in links : rank(q) = r
           target(p) == resolve(nodes, data[p[1]].connections[p[2]])
           node_items == [i \in DOMAIN data |->
                             [NodeItem(data[i].type, data[i].value, data[i].at)
                                 EXCEPT !.connections =
                                     [k \in DOMAIN data[i].connections |->
                                         target(<<i, k>>)]]]
           line_items == [r \in 1..Cardinality(links) |->
                             LineItem(nodes[link(r)[1]], target(link(r)))]
       IN /\ ed_items' = node_items \o line_items
          /\ ed_nodes' = nodes
          /\ ed_lines' = [r \in 1..Cardinality(links) |-> Len(data) + r]
    /\ action_history' = <<>>
    /\ redo_history' = <<>>
    /\ lastAction' = "load_phixeo"
    /\ UNCHANGED <<file, otherVars>>

InitEditor ==
    /\ EmptyCanvas
    /\ NoParser
    /\ prog = Program(0, <<>>, <<>>, <<>>, <<>>, <<>>)
    /\ FreshRuntime
    /\ max_workers = MaxWorkers
    /\ run = 1
    /\ firstResult = <<>>
    /\ firstExecuted = {}
    /\ firstSetup = <<>>
    /\ calls = 1

\* The sessions that are checked: a canvas is built with add_node, the two
\* ways of connecting, undo and delete, then saved and loaded.
Building == file = <<>>

NextEditor ==
    \/ Building /\ \E in \in EdInputs : add_node(in[1], in[2])
    \/ Building /\ \E a, b \in Range(ed_nodes) : eventFilter(a, b)
    \/ Building /\ \E a \in Range(ed_nodes), v \in EdValues : add_connection(a, v)
    \/ Building /\ undo_action
    \/ Building /\ \E a \in Range(ed_nodes) : delete_node(a)
    \/ save_phixeo
    \/ load_phixeo

SpecEditor == InitEditor /\ [][NextEditor]_vars

\* What the claim compares: at every index of the node list the type, the
\* value and the list of the indices (from 0) of the node's connections.
Topology ==
    [i \in DOMAIN ed_nodes |->
        LET n == ed_items[ed_nodes[i]]
        IN [type |-> n.type, value |-> n.value,
            children |-> [k \in DOMAIN n.connections |->
                             (CHOOSE j \in DOMAIN ed_nodes :
                                  ed_nodes[j] = n.connections[k]) - 1]]]

\* C17: load_phixeo of the file that save_phixeo writes of the canvas
\* leaves a node list with the same type and value at every index and the
\* same list of child indices at every node.
C17_RoundTrip ==
    [][(/\ lastAction' = "load_phixeo"
        /\ Saveable
        /\ file = <<save_data>>)
       => Topology' = Topology]_vars

\* a canvas that was loaded from its own file: some node has a child other
\* than the first node, some node has two children
C17_Witness ==
    /\ lastAction = "load_phixeo"
    /\ Saveable
    /\ file = <<save_data>>
    /\ \E n \in Range(ed_nodes) :
           \E c \in Range(ed_items[n].connections) : c # ed_nodes[1]
    /\ \E n \in Range(ed_nodes) : Len(ed_items[n].connections) = 2

\* ---------------------------------------------------------------------
\* Further parser claims
\* ---------------------------------------------------------------------
\* C21: a line that is not blank and contains none of "for ", "if ",
\* "def ", "print" and "=" produces no node.
C21_UnrecognizedSkipped ==
    \A i \in 1..lineIdx :
        LET v == lines[i].text
        IN (/\ v # Blank
            /\ ~InSp("for", v) /\ ~InSp("if", v) /\ ~InSp("def", v)
            /\ ~In("print", v) /\ ~In("=", v))
           => ~\E d \in Parsed : objs[d].at.spiral = i - 1

\* the nodes created before d from a line indented less than d's line
Enclosing(d) == {p \in Parsed : p < d /\ SourceIndent(p) < SourceIndent(d)}

\* C22: after parse() the parent of a node of any type is the nearest node
\* created before it from a line indented less than its own line; a node
\* that has no such predecessor has no parent.
C22_NearestEnclosing ==
    parsePc = "parsed" =>
        \A d \in Parsed :
            IF Enclosing(d) # {}
            THEN ParentsOf(d) = {CHOOSE p \in Enclosing(d) : \A q \in Enclosing(d) : q <= p}
            ELSE ParentsOf(d) = {}

\* two nodes the claim lets optimize() put into one aggregate: the same
\* type, the same first word and the same parent
SimilarSiblings(a, b) == nodes_are_similar(a, b) /\ ParentsOf(a) = ParentsOf(b)

\* C24: after optimize() on the parsed list the nodes are there in their
\* order, every aggregate holds more than one node, adjacent nodes of an
\* aggregate are siblings of the same type and first word, and two
\* adjacent nodes that are such siblings are in one aggregate.
C24_SiblingRuns ==
    optCalls = 1 =>
        /\ LeavesOfList(parser_nodes) = Interval(1, Cardinality(Parsed))
        /\ \A d \in Range(parser_nodes) :
               HasSubnodes(d) =>
                   /\ Len(objs[d].subnodes) > 1
                   /\ \A k \in 1..(Len(objs[d].subnodes) - 1) :
                          SimilarSiblings(objs[d].subnodes[k], objs[d].subnodes[k + 1])
        /\ \A k \in 1..(Cardinality(Parsed) - 1) :
               SimilarSiblings(k, k + 1) =>
                   \E d \in Range(parser_nodes) :
                       {k, k + 1} \subseteq Range(objs[d].subnodes)

\* ---------------------------------------------------------------------
\* parse() with its node creation tasks
\* ---------------------------------------------------------------------
\* The sources parsed task by task: lines that are blank, unrecognized, a
\* statement or a header, not indented or indented by one blank.
TaskSources ==
    SeqsUpTo({Line(d, t) : d \in {0, 1}, t \in NestedTexts}, MaxLines)

InitTasks ==
    /\ lines \in TaskSources
    /\ objs = <<>>
    /\ parser_nodes = <<>>
    /\ parsePc = "submit"
    /\ lineIdx = 0
    /\ connTodo = {}
    /\ optCalls = 0
    /\ futures = <<>>
    /\ collectIdx = 0
    /\ EmptyCanvas
    /\ prog = Program(0, <<>>, <<>>, <<>>, <<>>, <<>>)
    /\ FreshRuntime
    /\ max_workers = MaxWorkers
    /\ run = 1
    /\ firstResult = <<>>
    /\ firstExecuted = {}
    /\ firstSetup = <<>>
    /\ calls = 1

\* parse(), lines 39-48: one round of the loop over the lines; a line that
\* is not blank gives a task, which is handed the stripped line and the
\* point of the spiral with the line's index n
SubmitCreate ==
    /\ parsePc = "submit"
    /\ lineIdx < Len(lines)
    /\ futures' = IF lines[lineIdx + 1].text = Blank
                  THEN futures
                  ELSE Append(futures, [n |-> lineIdx, st |-> "queued"])
    /\ lineIdx' = lineIdx + 1
    /\ UNCHANGED <<lines, objs, parser_nodes, parsePc, connTodo, optCalls, collectIdx,
                   runtimeVars, editorVars>>

\* the loop over the lines is left
SubmitDone ==
    /\ parsePc = "submit"
    /\ lineIdx = Len(lines)
    /\ parsePc' = "collect"
    /\ collectIdx' = 1
    /\ UNCHANGED <<lines, objs, parser_nodes, lineIdx, connTodo, optCalls, futures,
                   runtimeVars, editorVars>>

\* A worker runs one _create_node task, in any order from the first
\* submit on; the task reads its arguments and writes nothing shared.
CreateNode(f) ==
    /\ parsePc \in {"submit", "collect"}
    /\ f \in DOMAIN futures
    /\ futures[f].st = "queued"
    /\ futures' = [futures EXCEPT ![f].st = "done"]
    /\ UNCHANGED <<lines, objs, parser_nodes, parsePc, lineIdx, connTodo, optCalls,
                   collectIdx, runtimeVars, editorVars>>

\* parse(), lines 51-54: future.result() of the next future, in the order
\* of submission
Collect ==
    /\ parsePc = "collect"
    /\ collectIdx <= Len(futures)
    /\ futures[collectIdx].st = "done"
    /\ LET n == futures[collectIdx].n
           text == lines[n + 1].text
           type == create_node(text)
       IN IF type = "None"
          THEN UNCHANGED <<objs, parser_nodes>>
          ELSE /\ objs' = Append(objs, NodeDict(type, text, n))
               /\ parser_nodes' = Append(parser_nodes, Len(objs) + 1)
    /\ collectIdx' = collectIdx + 1
    /\ UNCHANGED <<lines, parsePc, lineIdx, connTodo, optCalls, futures,
                   runtimeVars, editorVars>>

\* every future is collected: parse() is at line 57
CollectDone ==
    /\ parsePc = "collect"
    /\ collectIdx > Len(futures)
    /\ parsePc' = "create"
    /\ UNCHANGED <<lines, objs, parser_nodes, lineIdx, connTodo, optCalls, futures,
                   collectIdx, runtimeVars, editorVars>>

NextTasks ==
    \/ SubmitCreate
    \/ SubmitDone
    \/ \E f \in DOMAIN futures : CreateNode(f)
    \/ Collect
    \/ CollectDone
    \/ AddConnections
    \/ \E i \in DOMAIN parser_nodes : ProcessConnections(i)
    \/ ParseReturn

SpecTasks == InitTasks /\ [][NextTasks]_vars

\* the indices of the lines _create_node makes a node of
Recognized ==
    {n \in 0..(Len(lines) - 1) :
        lines[n + 1].text # Blank /\ create_node(lines[n + 1].text) # "None"}

\* C23: once the futures are collected, self.nodes is a function of the
\* source alone on every order of the tasks: its i-th node is made of the
\* i-th line that makes a node, and has the spiral position of that line's
\* index among all lines.
C23_PositionByLine ==
    parsePc \in {"connect", "parsed"} =>
        /\ Len(parser_nodes) = Cardinality(Recognized)
        /\ \A i \in DOMAIN parser_nodes :
               LET d == objs[parser_nodes[i]]
               IN /\ d.at.spiral \in Recognized
                  /\ Cardinality({m \in Recognized : m < d.at.spiral}) = i - 1
                  /\ d.value = lines[d.at.spiral + 1].text
                  /\ d.type = create_node(d.value)

\* parse() has returned and some node's spiral index is not its rank among
\* the nodes
C23_Witness ==
    /\ parsePc = "parsed"
    /\ futures # <<>>
    /\ \E i \in DOMAIN parser_nodes : objs[parser_nodes[i]].at.spiral # i - 1

\* ---------------------------------------------------------------------
\* Further runtime claims
\* ---------------------------------------------------------------------
\* C25: no step of a run changes the node list or a node's type, value,
\* position, connections or subnodes.
C25_NodesReadOnly == [][prog' = prog]_vars

\* execute() has returned after a node ran the members of its body
C25_Witness ==
    /\ mainPc = "returned"
    /\ \E t \in DOMAIN tasks : tasks[t].st = "done" /\ tasks[t].node \notin Range(prog.nodes)
    /\ \E n \in NodeIds : prog.connections[n] # <<>>

\* a task of a loop "x in range(k)" that is in one of its iterations, or
\* has finished after at least one
InLoop(t) ==
    /\ TypeOf(tasks[t].node) = "Hexagonal"
    /\ ValueOf(tasks[t].node) = "range"
    /\ prog.kind[tasks[t].node].k >= 1
    /\ tasks[t].pc \in {"submit", "wait"} \/ tasks[t].out = "ok"

\* C26: while a loop runs and after it has finished, its loop variable is
\* bound in the shared environment self._common_ops.
C26_LoopVariableShared ==
    \A t \in DOMAIN tasks : InLoop(t) => "x" \in common_ops

\* C27: in one run no node is evaluated more than once.
C27_AtMostOnce == \A n \in NodeIds : Evaluations(n) <= 1

\* ---------------------------------------------------------------------
\* A second call of execute() on the same runtime
\* ---------------------------------------------------------------------
IsPrefix(s, t) == Len(s) <= Len(t) /\ SubSeq(t, 1, Len(s)) = s

\* The mutant starts the second call with an emptied output list.
ExecuteAgainCleared ==
    /\ mainPc = "returned"
    /\ calls = 1
    /\ calls' = 2
    /\ firstResult' = result
    /\ executed' = {}
    /\ mainFutures' = <<>>
    /\ sorted_nodes' = SortedNodes
    /\ scanIdx' = 1
    /\ mainPc' = "scan"
    /\ waitIdx' = 0
    /\ tasks' = <<>>
    /\ output' = <<>>
    /\ UNCHANGED <<prog, common_ops, result, max_workers, run,
                   firstExecuted, firstSetup, parserVars, editorVars>>

\* execute() is called again after it has returned, lines 63-70: executed
\* and futures are new, self.output and self._common_ops are the runtime's;
\* the finished tasks of the first call are forgotten
ExecuteAgain ==
    /\ mainPc = "returned"
    /\ calls = 1
    /\ calls' = 2
    /\ firstResult' = result
    /\ executed' = {}
    /\ mainFutures' = <<>>
    /\ sorted_nodes' = SortedNodes
    /\ scanIdx' = 1
    /\ mainPc' = "scan"
    /\ waitIdx' = 0
    /\ tasks' = <<>>
    /\ UNCHANGED <<prog, common_ops, output, result, max_workers, run,
                   firstExecuted, firstSetup, parserVars, editorVars>>

NextAgain == Next \/ ExecuteAgain

\* the runtimes called twice: those of the graphs of at most MaxBody nodes
AgainPrograms == {p \in Programs : p.n <= MaxBody}

InitAgain == Init /\ prog \in AgainPrograms

SpecAgain == InitAgain /\ [][NextAgain]_vars

\* the second call has returned
ReturnedAgain == calls = 2 /\ mainPc = "returned"

\* C28: every step leaves the entries of self.output in place and only
\* adds at the end, the start of a second execute() included, and what the
\* second call returns starts with all of what the first call returned.
C28_OutputAppendOnly ==
    /\ [][IsPrefix(output, output')]_vars
    /\ [](ReturnedAgain => IsPrefix(firstResult, result))

\* the second call has returned more than the non-empty result of the first
C28_Witness ==
    /\ ReturnedAgain
    /\ firstResult # <<>>
    /\ Len(result) > Len(firstResult)

\* ---------------------------------------------------------------------
\* Further editor claims
\* ---------------------------------------------------------------------
\* C29: every entry of the connections list of a node of self.nodes is
\* itself in self.nodes.
C29_NoDangling ==
    \A n \in Range(ed_nodes) :
        \A k \in DOMAIN ed_items[n].connections :
            \E j \in DOMAIN ed_nodes : ed_nodes[j] = ed_items[n].connections[k]

\* The sessions of undo and redo: a canvas is edited with every handler
\* that changes the lists; nothing is saved or loaded.
NextHistory ==
    \/ \E in \in EdInputs : add_node(in[1], in[2])
    \/ \E a, b \in Range(ed_nodes) : eventFilter(a, b)
    \/ \E a \in Range(ed_nodes), v \in EdValues : add_connection(a, v)
    \/ undo_action
    \/ redo_action
    \/ \E a \in Range(ed_nodes) : delete_node(a)
    \/ clear_canvas

SpecHistory == InitEditor /\ [][NextHistory]_vars

\* C30: when the action history is not empty, undo_action does not raise,
\* and undo_action followed by redo_action gives back the node list, the
\* line list, every connections list and the action history.
C30_UndoThenRedo ==
    action_history # <<>> =>
        /\ ~undo_raises(Canvas)
        /\ LET c == redo(undo(Canvas))
           IN /\ c.nodes = ed_nodes
              /\ c.lines = ed_lines
              /\ c.history = action_history
              /\ \A i \in DOMAIN ed_items :
                     c.items[i].connections = ed_items[i].connections

====
